---- MODULE Spec2Model ----
(***************************************************************************)
(* A state-machine model of the backtracking regular-expression matcher    *)
(* of src/matcher/mod.rs.  Every call of Matcher::compute_match and every  *)
(* return from it is one step; the recursion of the Rust code is kept in   *)
(* an explicit stack of frames that hold the locals of the suspended       *)
(* next / group_match / alternation_match / concatenation_match calls.     *)
(* Positions and table indices are 0-based as in the Rust code; a TLA+     *)
(* sequence s is read at Rust index i as s[i + 1].                         *)
(***************************************************************************)
EXTENDS Integers, Sequences, FiniteSets, TLC

(***************************************************************************)
(* Bounds of the model.                                                    *)
(***************************************************************************)
\* Longest target string drawn from TargetAlphabet.
MaxTargetLen == 4
\* How many None results next() is called up to.
MaxNoneCalls == 2
\* How many times assign_match_target is called on one matcher.
MaxRebinds == 1
\* Longest string given to escape.
MaxEscapeLen == 2

(***************************************************************************)
(* Syntax tree (Regexp / ExpressionTag as used by the matcher).            *)
(***************************************************************************)
\* Option::<char>::None of CharacterExpression.value: the dot expression.
NoChar == "None"

\* Option::<usize>::None of a concatenation child's table position.
NoIndex == -1

EmptyNode ==
    [tag |-> "Empty", value |-> NoChar, quantifier |-> "None",
     children |-> <<>>, parent |-> FALSE]

CharNode(v, q) ==
    [tag |-> "Char", value |-> v, quantifier |-> q,
     children |-> <<>>, parent |-> FALSE]

\* A child linked to its parent: `child.parent = Some(Rc::downgrade(..))`.
WithParent(n) == [n EXCEPT !.parent = TRUE]

LinkChildren(kids) == [i \in 1..Len(kids) |-> WithParent(kids[i])]

GroupNode(inner, q) ==
    [tag |-> "Group", value |-> NoChar, quantifier |-> q,
     children |-> <<WithParent(inner)>>, parent |-> FALSE]

AltNode(kids) ==
    [tag |-> "Alt", value |-> NoChar, quantifier |-> "None",
     children |-> LinkChildren(kids), parent |-> FALSE]

ConcatNode(kids) ==
    [tag |-> "Concat", value |-> NoChar, quantifier |-> "None",
     children |-> LinkChildren(kids), parent |-> FALSE]

(***************************************************************************)
(* Scanner (src/scanner/mod.rs).  A source string is a sequence of         *)
(* one-character strings.  The escaped token names of the scanner          *)
(* (EscapedSlash, EscapedLeftParen, ...) are the Character tokens of       *)
(* tokens.rs that carry the metacharacter and is_escaped_metacharacter.    *)
(***************************************************************************)
\* '\0': what Scanner::get returns outside the source.
Nul == "NUL"

\* Option::<Token>::None: end of the token stream.
NoToken == [name |-> "End", value |-> Nul, is_escaped_metacharacter |-> FALSE,
            position |-> 0]

Token(n, v, esc, p) ==
    [name |-> n, value |-> v, is_escaped_metacharacter |-> esc, position |-> p]

\* Scanner::new
NewScanner(src) == [source |-> src, current |-> 0, found_empty_string |-> FALSE]

\* Scanner::get
ScannerGet(sc, index, offset) ==
    IF index + offset < 0 \/ index + offset >= Len(sc.source) THEN Nul
    ELSE sc.source[index + offset + 1]

\* Scanner::has_next
ScannerHasNext(sc) == sc.current < Len(sc.source)

\* The three cases in which Scanner::next emits an Empty token, for the
\* character prev before the cursor and the character peek under it.
EmptyTokenCase(sc, prev, peek) ==
    \/ Len(sc.source) = 0
    \/ (Len(sc.source) = 1 /\ peek = "|")
    \/ (prev = "(" /\ (peek = "|" \/ peek = ")"))
    \/ (prev = "|" /\ (peek = ")" \/ peek = "|"))
    \/ (peek = "|" /\ sc.current + 1 = Len(sc.source))

\* The characters that make `\` an escape.
EscapableChars == {"\\", "(", ")", "|", "?", "*", "+", "."}

\* The token for the character peek at position at, followed by next_char,
\* and the number of source characters the token takes.
Lexeme(peek, next_char, at) ==
    CASE peek = "(" -> [token |-> Token("LeftParen", peek, FALSE, at), width |-> 1]
      [] peek = ")" -> [token |-> Token("RightParen", peek, FALSE, at), width |-> 1]
      [] peek = "|" -> [token |-> Token("Pipe", peek, FALSE, at), width |-> 1]
      [] peek = "?" -> [token |-> Token("Mark", peek, FALSE, at), width |-> 1]
      [] peek = "*" -> [token |-> Token("Star", peek, FALSE, at), width |-> 1]
      [] peek = "+" -> [token |-> Token("Plus", peek, FALSE, at), width |-> 1]
      [] peek = "." -> [token |-> Token("Dot", peek, FALSE, at), width |-> 1]
      [] peek = "\\" /\ next_char \in EscapableChars ->
            [token |-> Token("Character", next_char, TRUE, at), width |-> 2]
      [] OTHER -> [token |-> Token("Character", peek, FALSE, at), width |-> 1]

\* The scanner after it has emitted the lexeme lex.
ScannerAfter(sc, lex) ==
    [token |-> lex.token,
     scanner |-> [sc EXCEPT !.found_empty_string = FALSE,
                            !.current = @ + lex.width]]

\* Faulty variant of AfterEmptyToken: found_empty_string is not set.
AfterEmptyTokenUnflagged(sc) == sc

\* The scanner after it has emitted an Empty token: the cursor has not
\* moved and found_empty_string is set.
AfterEmptyToken(sc) == [sc EXCEPT !.found_empty_string = TRUE]

\* Scanner::next: the token (NoToken at end of stream) and the scanner after.
ScannerNext(sc) ==
    IF /\ ScannerGet(sc, sc.current, -2) # "\\"
       /\ ~sc.found_empty_string
       /\ EmptyTokenCase(sc, ScannerGet(sc, sc.current, -1),
                         ScannerGet(sc, sc.current, 0))
    THEN [token |-> Token("Empty", Nul, FALSE, sc.current),
          scanner |-> AfterEmptyToken(sc)]
    ELSE IF ~ScannerHasNext(sc)
    THEN [token |-> NoToken,
          scanner |-> [sc EXCEPT !.found_empty_string = FALSE]]
    ELSE ScannerAfter(sc, Lexeme(ScannerGet(sc, sc.current, 0),
                                 ScannerGet(sc, sc.current, 1), sc.current))

(***************************************************************************)
(* Parser (src/parser/mod.rs).  A parse function returns                   *)
(* Result<Option<Regexp>, String>: ok is FALSE for Err, some is FALSE for  *)
(* Ok(None); st is the parser after the call.  Each function is split at   *)
(* the calls it makes: the operator named After... is the rest of the      *)
(* function, given what the call returned.                                 *)
(***************************************************************************)
\* Parser::new
NewParser(src) ==
    [scanner |-> NewScanner(src), current |-> NoToken, grouping_marks |-> <<>>]

ParseErr(st) == [ok |-> FALSE, some |-> FALSE, node |-> EmptyNode, st |-> st]

ParseNone(st) == [ok |-> TRUE, some |-> FALSE, node |-> EmptyNode, st |-> st]

ParseSome(n, st) == [ok |-> TRUE, some |-> TRUE, node |-> n, st |-> st]

\* Parser::check
Check(st, expected) == st.current.name = expected

\* Parser::advance once the scanner has returned read: a `)` pops a
\* grouping mark and is an error when there is none, a `(` pushes one.
AdvanceAfterRead(st, read) ==
    IF read.token.name = "RightParen"
    THEN IF Len(st.grouping_marks) = 0
         THEN [ok |-> FALSE,
               st |-> [st EXCEPT !.scanner = read.scanner,
                                 !.current = read.token]]
         ELSE [ok |-> TRUE,
               st |-> [st EXCEPT !.scanner = read.scanner,
                                 !.current = read.token,
                                 !.grouping_marks = SubSeq(@, 1, Len(@) - 1)]]
    ELSE IF read.token.name = "LeftParen"
    THEN [ok |-> TRUE,
          st |-> [st EXCEPT !.scanner = read.scanner,
                            !.current = read.token,
                            !.grouping_marks = Append(@, read.token.position)]]
    ELSE [ok |-> TRUE,
          st |-> [st EXCEPT !.scanner = read.scanner, !.current = read.token]]

\* Parser::advance
ParserAdvance(st) == AdvanceAfterRead(st, ScannerNext(st.scanner))

\* Quantifier::from(&Option<Token>)
QuantifierFrom(token) ==
    CASE token.name = "Mark" -> "ZeroOrOne"
      [] token.name = "Star" -> "ZeroOrMore"
      [] token.name = "Plus" -> "OneOrMore"
      [] OTHER -> "None"

QuantifierAfterAdvance(quantifier, adv) ==
    [ok |-> adv.ok, quantifier |-> quantifier, st |-> adv.st]

\* Parser::consume_quantifier: [ok, quantifier, st]
ConsumeQuantifier(st) ==
    IF QuantifierFrom(st.current) # "None"
    THEN QuantifierAfterAdvance(QuantifierFrom(st.current), ParserAdvance(st))
    ELSE [ok |-> TRUE, quantifier |-> "None", st |-> st]

EmptyAfterAdvance(adv) ==
    IF ~adv.ok THEN ParseErr(adv.st) ELSE ParseSome(EmptyNode, adv.st)

\* Parser::parse_the_empty_expression
ParseTheEmptyExpression(st) == EmptyAfterAdvance(ParserAdvance(st))

CharacterAfterQuantifier(value, q) ==
    IF ~q.ok THEN ParseErr(q.st)
    ELSE ParseSome(CharNode(value, q.quantifier), q.st)

CharacterAfterAdvance(value, adv) ==
    IF ~adv.ok THEN ParseErr(adv.st)
    ELSE CharacterAfterQuantifier(value, ConsumeQuantifier(adv.st))

\* Parser::parse_the_dot_expression and Parser::parse_character_expression:
\* the dot is the character expression without a value.
ParseCharacterExpression(st, value) ==
    CharacterAfterAdvance(value, ParserAdvance(st))

\* What parse_concatenation returns for the primaries it collected.
ConcatenationOf(kids, st) ==
    IF Len(kids) = 0 THEN ParseNone(st)
    ELSE IF Len(kids) = 1 THEN ParseSome(kids[1], st)
    ELSE ParseSome(ConcatNode(kids), st)

\* What parse_expression returns for the alternatives it collected.
AlternationOf(kids, st) ==
    IF Len(kids) = 0 THEN ParseNone(st)
    ELSE IF Len(kids) = 1 THEN ParseSome(kids[1], st)
    ELSE ParseSome(AltNode(kids), st)

GroupAfterQuantifier(inner, q) ==
    IF ~q.ok THEN ParseErr(q.st)
    ELSE ParseSome(GroupNode(inner, q.quantifier), q.st)

\* parse_group after consume(RightParen) has advanced.
GroupAfterClose(inner, closed) ==
    IF ~closed.ok THEN ParseErr(closed.st)
    ELSE GroupAfterQuantifier(inner, ConsumeQuantifier(closed.st))

\* parse_group after the grouped expression was parsed: consume the `)`.
GroupAfterInner(inner) ==
    IF ~inner.ok \/ ~inner.some THEN ParseErr(inner.st)
    ELSE IF ~Check(inner.st, "RightParen") THEN ParseErr(inner.st)
    ELSE GroupAfterClose(inner.node, ParserAdvance(inner.st))

\* parse_expression after the expression right of `|` was parsed.
ExpressionAfterRight(left, right) ==
    IF ~right.ok THEN ParseErr(right.st)
    ELSE IF ~right.some THEN AlternationOf(<<left>>, right.st)
    ELSE AlternationOf(<<left, right.node>>, right.st)

RECURSIVE ParseExpression(_)
RECURSIVE ParseConcatenation(_, _)

\* Parser::parse_group
ParseGroup(st) ==
    IF ~ParserAdvance(st).ok THEN ParseErr(ParserAdvance(st).st)
    ELSE GroupAfterInner(ParseExpression(ParserAdvance(st).st))

\* Parser::parse_primary
ParsePrimary(st) ==
    CASE st.current.name = "Empty" -> ParseTheEmptyExpression(st)
      [] st.current.name = "Dot" -> ParseCharacterExpression(st, NoChar)
      [] st.current.name = "Character" ->
            ParseCharacterExpression(st, st.current.value)
      [] st.current.name = "LeftParen" -> ParseGroup(st)
      [] OTHER -> ParseNone(st)

\* The loop of parse_concatenation once parse_primary has returned.
ConcatenationAfterPrimary(kids, primary) ==
    IF ~primary.ok THEN ParseErr(primary.st)
    ELSE IF ~primary.some THEN ConcatenationOf(kids, primary.st)
    ELSE ParseConcatenation(primary.st, Append(kids, primary.node))

\* Parser::parse_concatenation, with the primaries collected so far.
ParseConcatenation(st, kids) ==
    ConcatenationAfterPrimary(kids, ParsePrimary(st))

\* parse_expression after `|` was read.
ExpressionAfterPipe(left, adv) ==
    IF ~adv.ok THEN ParseErr(adv.st)
    ELSE ExpressionAfterRight(left, ParseExpression(adv.st))

\* parse_expression after its first concatenation was parsed.
ExpressionAfterConcatenation(concatenation) ==
    IF ~concatenation.ok THEN ParseErr(concatenation.st)
    ELSE IF ~concatenation.some THEN AlternationOf(<<>>, concatenation.st)
    ELSE IF ~Check(concatenation.st, "Pipe")
    THEN AlternationOf(<<concatenation.node>>, concatenation.st)
    ELSE ExpressionAfterPipe(concatenation.node,
                             ParserAdvance(concatenation.st))

\* Parser::parse_expression
ParseExpression(st) ==
    IF st.current.name = "End" THEN ParseNone(st)
    ELSE IF st.current.name \notin {"Empty", "Dot", "Character", "LeftParen"}
    THEN ParseErr(st)
    ELSE ExpressionAfterConcatenation(ParseConcatenation(st, <<>>))

\* parse_source after parse_expression has returned.
SourceAfterExpression(parsed) ==
    IF ~parsed.ok THEN [status |-> "error", regexp |-> EmptyNode]
    ELSE IF ~parsed.some THEN [status |-> "panic", regexp |-> EmptyNode]
    ELSE [status |-> "ok", regexp |-> [parsed.node EXCEPT !.parent = FALSE]]

SourceAfterAdvance(first) ==
    IF ~first.ok THEN [status |-> "error", regexp |-> EmptyNode]
    ELSE SourceAfterExpression(ParseExpression(first.st))

\* Parser::parse_source / parse: "ok" with the root expression, "error" for
\* a syntax error, "panic" when no expression could be parsed.
Parse(src) == SourceAfterAdvance(ParserAdvance(NewParser(src)))

(***************************************************************************)
(* Match results: Option<Range<usize>>.                                    *)
(***************************************************************************)
NoMatch == [some |-> FALSE, start |-> 0, end |-> 0]

SomeMatch(s, e) == [some |-> TRUE, start |-> s, end |-> e]

\* Range::is_empty
IsEmptyRange(m) == m.start >= m.end

Min(a, b) == IF a < b THEN a ELSE b

\* usize::saturating_sub(1)
\* Faulty variant of SaturatingPred: the bound read from a table entry is the
\* entry's end itself, so a retry may consume as much as before.
SaturatingPredStuck(n) == n

SaturatingPred(n) == IF n > 0 THEN n - 1 ELSE 0

(***************************************************************************)
(* Order on index sequences: Vec<usize>::cmp is lexicographic.             *)
(***************************************************************************)
RECURSIVE SeqLess(_, _)
SeqLess(a, b) ==
    IF b = <<>> THEN FALSE
    ELSE IF a = <<>> THEN TRUE
    ELSE IF Head(a) < Head(b) THEN TRUE
    ELSE IF Head(a) > Head(b) THEN FALSE
    ELSE SeqLess(Tail(a), Tail(b))

(***************************************************************************)
(* Matcher::supports_backtracking.                                         *)
(***************************************************************************)
RECURSIVE supports_backtracking(_)
supports_backtracking(expr) ==
    CASE expr.tag = "Empty" -> FALSE
      [] expr.tag = "Char" -> expr.quantifier # "None"
      [] expr.tag = "Group" ->
            \/ expr.quantifier # "None"
            \/ supports_backtracking(expr.children[1])
      [] OTHER ->
            \E i \in 1..Len(expr.children) :
                supports_backtracking(expr.children[i])

(***************************************************************************)
(* The backtrack table: Vec<ExpressionBacktrackInfo>.                      *)
(***************************************************************************)
BacktrackInfo(seq, s, e) ==
    [index_sequence |-> seq, last_match_start |-> s, last_match_end |-> e,
     backtracked_to_last_match_start |-> (s = e)]

\* `backtrack_table.iter().find(|entry| entry.index_sequence == seq)`:
\* the position of the first entry with that path, NoIndex when none has it.
FindEntry(table, seq) ==
    LET hits == {i \in 1..Len(table) : table[i].index_sequence = seq}
    IN  IF hits = {} THEN NoIndex
        ELSE (CHOOSE i \in hits : \A j \in hits : i <= j) - 1

\* `binary_search_by(|e| e.index_sequence.cmp(seq))` on a table sorted by
\* index_sequence: Ok(position of the entry) or Err(insertion position).
BinarySearch(table, seq) ==
    LET hits == {i \in 1..Len(table) : table[i].index_sequence = seq}
        less == {i \in 1..Len(table) : SeqLess(table[i].index_sequence, seq)}
    IN  IF hits # {}
        THEN [found |-> TRUE, index |-> (CHOOSE i \in hits : TRUE) - 1]
        ELSE [found |-> FALSE, index |-> Cardinality(less)]

\* Faulty variant of InsertAt: a new entry is pushed at the end of the table.
InsertAtEnd(table, index, item) == Append(table, item)

\* Vec::insert(index, item)
InsertAt(table, index, item) ==
    SubSeq(table, 1, index) \o <<item>> \o SubSeq(table, index + 1, Len(table))

\* Faulty variant of UpdatedFlag: every recorded match clears the flag.
UpdatedFlagCleared(start, end) == FALSE

\* backtracked_to_last_match_start as compute_match sets it when it updates
\* an entry: the new match is empty.
UpdatedFlag(start, end) == start = end

\* Faulty variant of Records: every successful match is recorded, whatever
\* the expression.
RecordsEverything(expr, m) == m.some

\* Faulty variant of Records: no match is recorded.
RecordsNothing(expr, m) == FALSE

\* The condition of the bookkeeping at the end of compute_match: the match
\* succeeded, the expression supports backtracking and is not the root.
Records(expr, m) == m.some /\ supports_backtracking(expr) /\ expr.parent

\* The bookkeeping at the end of compute_match: after a successful match of
\* a non-root expression that supports backtracking, update its entry or
\* insert a new one at the sorted position.
RecordMatch(table, seq, expr, m) ==
    IF Records(expr, m)
    THEN LET search_index == BinarySearch(table, seq)
         IN  IF search_index.found
             THEN [table EXCEPT ![search_index.index + 1] =
                      [@ EXCEPT !.last_match_start = m.start,
                                !.last_match_end = m.end,
                                !.backtracked_to_last_match_start =
                                    UpdatedFlag(m.start, m.end)]]
             ELSE InsertAt(table, search_index.index,
                           BacktrackInfo(seq, m.start, m.end))
    ELSE table

(***************************************************************************)
(* Cursor helpers.                                                         *)
(***************************************************************************)
\* Matcher::current: the normalised position.
Current(p, tgt) == Min(p, Len(tgt))

\* Matcher::has_next
HasNext(p, tgt) == p < Len(tgt)

(***************************************************************************)
(* character_expression_match, the pure part.                              *)
(***************************************************************************)
\* Faulty variant of CharMatchBound: every character expression may run to
\* the end of the target.
CharMatchBoundUnbounded(table, seq, quantifier, p, tgt) == Len(tgt)

\* The bound of a character match: one less than the end of the last match
\* when the expression has a table entry, else pos + 1 for x and x?, else
\* the target length.
CharMatchBound(table, seq, quantifier, p, tgt) ==
    LET entry == FindEntry(table, seq)
    IN  IF entry # NoIndex
        THEN SaturatingPred(table[entry + 1].last_match_end)
        ELSE IF quantifier \in {"None", "ZeroOrOne"} THEN p + 1
        ELSE Len(tgt)

\* The consuming loop: the position it stops at.
RECURSIVE CharRun(_, _, _, _)
CharRun(p, match_bound, value, tgt) ==
    IF /\ HasNext(p, tgt)
       /\ p < match_bound
       /\ ~(value # NoChar /\ tgt[p + 1] # value)
    THEN CharRun(p + 1, match_bound, value, tgt)
    ELSE p

\* Faulty variant of CharResult: one character is reported as consumed
\* without looking at what the loop consumed.
CharResultUnchecked(start, end, quantifier) == SomeMatch(start, start + 1)

\* Faulty variant of CharResult: an empty range is a failure whatever the
\* quantifier.
CharResultStrict(start, end, quantifier) ==
    IF start = end THEN NoMatch ELSE SomeMatch(start, end)

\* The result for the consumed range [start, end).
CharResult(start, end, quantifier) ==
    IF start = end
    THEN IF quantifier \in {"None", "OneOrMore"} THEN NoMatch
         ELSE SomeMatch(end, end)
    ELSE SomeMatch(start, end)

(***************************************************************************)
(* State.                                                                  *)
(***************************************************************************)
VARIABLES
    source,                         \* the pattern string given to Matcher::new
    pattern,                        \* Matcher.pattern: the node being processed
    target,                         \* Matcher.target
    pos,                            \* Matcher.pos
    matched_trailing_empty_string,  \* Matcher.matched_trailing_empty_string
    pattern_index_sequence,         \* Matcher.pattern_index_sequence
    backtrack_table,                \* Matcher.backtrack_table
    stack,                          \* frames of the suspended calls
    mode,                           \* "idle", "call", "ret", "panic", "error"
    ret,                            \* value returned by the last compute_match
    results,                        \* values returned by next() since the
                                    \* target was bound, oldest first
    rebinds,                        \* calls of assign_match_target so far
    fresh_trailing,                 \* matched_trailing_empty_string as a
                                    \* matcher newly built on the current
                                    \* target would hold it at this point
    rearmed,                        \* the index sequences of the entries that
                                    \* a concatenation has re-armed since the
                                    \* last match recorded in them
    scan                            \* a Scanner over source that is polled on
                                    \* its own: the Scanner, the values its
                                    \* next() has returned, and whether the
                                    \* last one was None

vars == <<source, pattern, target, pos, matched_trailing_empty_string,
          pattern_index_sequence, backtrack_table, stack, mode, ret, results,
          rebinds, fresh_trailing, rearmed, scan>>

\* Option<(usize, &Option<usize>)>: the sibling to resume at.
NoPrev == [some |-> FALSE, idx |-> 0, entry |-> NoIndex]

SomePrev(i, e) == [some |-> TRUE, idx |-> i, entry |-> e]

\* The locals of a suspended call.  fn names the function; the other fields
\* are the locals of that function (unused ones keep these defaults).
\* inner_calls is a history field: the number of times the loop of
\* group_match has called compute_match in this invocation.
BlankFrame ==
    [fn |-> "next", old_position |-> 0, old_pattern |-> EmptyNode,
     quantifier |-> "None", match_bound |-> 0,
     matched_empty_string |-> FALSE, start |-> 0, end |-> 0,
     inner_calls |-> 0,
     children |-> <<>>, match_region_end |-> 0, child_index |-> 0,
     prev |-> NoPrev]

Top == stack[Len(stack)]

Popped == SubSeq(stack, 1, Len(stack) - 1)

ReplaceTop(f) == [stack EXCEPT ![Len(stack)] = f]

\* Matcher::dive
Dive(seq) == Append(seq, 0)

\* Faulty variant of BubbleUp: the index path keeps its last element.
BubbleUpStays(seq) == seq

\* Matcher::bubble_up
BubbleUp(seq) == SubSeq(seq, 1, Len(seq) - 1)

\* Matcher::appoint_next_child
AppointNextChild(seq) == [seq EXCEPT ![Len(seq)] = @ + 1]

\* `*self.pattern_index_sequence.last_mut().unwrap() = child_index`
SetLast(seq, i) == [seq EXCEPT ![Len(seq)] = i]

NoneCount == Cardinality({i \in 1..Len(results) : ~results[i].some})

\* A specialised matcher returns m to compute_match, which does its
\* bookkeeping for expression expr at path seq and returns m to its caller.
ComputeReturn(m, expr, seq, p, table, stk) ==
    /\ pattern' = expr
    /\ pattern_index_sequence' = seq
    /\ pos' = p
    /\ backtrack_table' = RecordMatch(table, seq, expr, m)
    /\ rearmed' = (IF Records(expr, m) THEN rearmed \ {seq} ELSE rearmed)
    /\ stack' = stk
    /\ ret' = m
    /\ mode' = "ret"
    /\ UNCHANGED <<scan, source, target, matched_trailing_empty_string, results,
                    rebinds, fresh_trailing>>

\* An index or unwrap failure aborts the call.
Panic ==
    /\ mode' = "panic"
    /\ UNCHANGED <<scan, source, pattern, target, pos, matched_trailing_empty_string,
                   pattern_index_sequence, backtrack_table, stack, ret,
                   results,
                   rebinds, fresh_trailing, rearmed>>

(***************************************************************************)
(* Iterator::next, entry: the trailing-empty guard, then the first root    *)
(* attempt.                                                                *)
(***************************************************************************)
\* Faulty variant of TrailingEmptyDone: iteration stops as soon as the cursor
\* is at the end of the target.
TrailingEmptyEarly(p, tgt, matched_trailing) == p >= Len(tgt)

\* Faulty variant of TrailingEmptyDone: next() always starts a root attempt.
TrailingEmptyNever(p, tgt, matched_trailing) == FALSE

\* The guard at the top of next(): the trailing empty string was already
\* tried and the cursor is past the end.
TrailingEmptyDone(p, tgt, matched_trailing) == p > Len(tgt) /\ matched_trailing

NextCall ==
    /\ mode = "idle"
    /\ NoneCount < MaxNoneCalls
    /\ IF TrailingEmptyDone(pos, target, matched_trailing_empty_string)
       THEN /\ results' = Append(results, NoMatch)
            /\ UNCHANGED <<scan, source, pattern, target, pos,
                           matched_trailing_empty_string,
                           pattern_index_sequence, backtrack_table, stack,
                           mode, ret,
                           rebinds, fresh_trailing, rearmed>>
       ELSE /\ matched_trailing_empty_string' =
                   (IF pos >= Len(target) THEN TRUE
                    ELSE matched_trailing_empty_string)
            /\ fresh_trailing' =
                   (IF pos >= Len(target) THEN TRUE ELSE fresh_trailing)
            /\ UNCHANGED <<rebinds, rearmed>>
            /\ pattern_index_sequence' = Dive(pattern_index_sequence)
            /\ stack' = Append(stack, BlankFrame)
            /\ mode' = "call"
            /\ UNCHANGED <<scan, source, pattern, target, pos, backtrack_table,
                           ret, results>>

(***************************************************************************)
(* Iterator::next, after a root attempt returned: clear the table, then    *)
(* retry one position further, or return.                                  *)
(***************************************************************************)
\* Faulty variants of PositionAfterMatch: the next attempt restarts one past
\* the start of the match; the cursor is left as it is after an empty match.
PositionRestart(m, p) == m.start + 1

PositionStuck(m, p) == p

\* The cursor next() leaves after a successful root attempt: one further
\* when the match is empty, else where the match ended.
PositionAfterMatch(m, p) == IF IsEmptyRange(m) THEN p + 1 ELSE p

NextFinish(m, p) ==
    /\ pos' = p
    /\ pattern_index_sequence' = BubbleUp(pattern_index_sequence)
    /\ stack' = Popped
    /\ mode' = "idle"
    /\ results' = Append(results, m)
    /\ UNCHANGED <<scan, source, pattern, target, matched_trailing_empty_string, ret,
                    rebinds, fresh_trailing>>

NextStep ==
    /\ mode = "ret"
    /\ Top.fn = "next"
    /\ backtrack_table' = <<>>
    /\ rearmed' = {}
    /\ IF ~ret.some
       THEN IF HasNext(pos, target)
            THEN /\ pos' = pos + 1
                 /\ mode' = "call"
                 /\ UNCHANGED <<scan, source, pattern, target,
                                matched_trailing_empty_string,
                                pattern_index_sequence, stack, ret, results,
                                rebinds, fresh_trailing>>
            ELSE NextFinish(ret, pos)
       ELSE NextFinish(ret, PositionAfterMatch(ret, pos))

(***************************************************************************)
(* compute_match on an empty expression.                                   *)
(***************************************************************************)
EmptyExpressionMatch ==
    /\ mode = "call"
    /\ pattern.tag = "Empty"
    /\ ComputeReturn(SomeMatch(Current(pos, target), Current(pos, target)),
                     pattern, pattern_index_sequence, pos, backtrack_table,
                     stack)

(***************************************************************************)
(* compute_match on a character or dot expression.                         *)
(***************************************************************************)
CharacterExpressionMatch ==
    /\ mode = "call"
    /\ pattern.tag = "Char"
    /\ LET match_bound == CharMatchBound(backtrack_table,
                              pattern_index_sequence, pattern.quantifier,
                              pos, target)
           start == Current(pos, target)
           stop == CharRun(pos, match_bound, pattern.value, target)
           end == Current(stop, target)
       IN  ComputeReturn(CharResult(start, end, pattern.quantifier),
                         pattern, pattern_index_sequence, stop,
                         backtrack_table, stack)

(***************************************************************************)
(* group_match.                                                            *)
(***************************************************************************)
\* The bound of a group match, read before diving into the group.
GroupMatchBound(table, seq, tgt) ==
    LET entry == FindEntry(table, seq)
    IN  IF entry # NoIndex
        THEN SaturatingPred(table[entry + 1].last_match_end)
        ELSE Len(tgt)

\* The loop of group_match goes on after a successful inner match m unless
\* the bound is exceeded or m is a second empty match in a row.
GroupBoundExceeded(p, match_bound) == p > match_bound

\* Faulty variant of GroupSeesRepeatedEmpty: the loop ends after the first
\* inner match.
GroupStopsAfterFirst(m, matched_empty_string) == TRUE

\* Faulty variant of GroupSeesRepeatedEmpty: empty inner matches never end
\* the loop.
GroupIgnoresEmpty(m, matched_empty_string) == FALSE

GroupSeesRepeatedEmpty(m, matched_empty_string) ==
    IsEmptyRange(m) /\ matched_empty_string

\* The value of group_match once its loop has ended at cursor cur.
GroupResult(start, end, matched_empty_string, quantifier, cur) ==
    IF start = end /\ ~matched_empty_string
    THEN IF quantifier \in {"None", "OneOrMore"} THEN NoMatch
         ELSE SomeMatch(cur, cur)
    ELSE SomeMatch(start, end)

\* compute_match on a group: replace the pattern by the grouped expression,
\* read the bound, dive, and call compute_match on the inner expression.
GroupEnter ==
    /\ mode = "call"
    /\ pattern.tag = "Group"
    /\ LET cur == Current(pos, target)
           frame == [BlankFrame EXCEPT
                        !.fn = "group",
                        !.old_pattern = pattern,
                        !.quantifier = pattern.quantifier,
                        !.match_bound = GroupMatchBound(backtrack_table,
                                            pattern_index_sequence, target),
                        !.start = cur,
                        !.end = cur,
                        !.inner_calls = 1]
       IN  /\ pattern' = pattern.children[1]
           /\ pattern_index_sequence' = Dive(pattern_index_sequence)
           /\ stack' = Append(stack, frame)
           /\ mode' = "call"
           /\ UNCHANGED <<scan, source, target, pos, matched_trailing_empty_string,
                          backtrack_table, ret, results,
                          rebinds, fresh_trailing, rearmed>>

\* The loop has ended with the cursor at p: restore the pattern, bubble up
\* and return.
GroupFinish(f, p) ==
    ComputeReturn(GroupResult(f.start, f.end, f.matched_empty_string,
                              f.quantifier, Current(p, target)),
                  f.old_pattern, BubbleUp(pattern_index_sequence), p,
                  backtrack_table, Popped)

\* The inner compute_match returned to group_match.
GroupStep ==
    /\ mode = "ret"
    /\ Top.fn = "group"
    /\ LET f == Top
       IN  IF ~ret.some THEN GroupFinish(f, pos)
           ELSE IF GroupBoundExceeded(pos, f.match_bound)
                THEN GroupFinish(f, f.end)
           ELSE IF GroupSeesRepeatedEmpty(ret, f.matched_empty_string)
                THEN GroupFinish(f, pos)
           ELSE /\ stack' = ReplaceTop([f EXCEPT
                                !.end = ret.end,
                                !.matched_empty_string = IsEmptyRange(ret),
                                !.inner_calls = @ + 1])
                /\ mode' = "call"
                /\ UNCHANGED <<scan, source, pattern, target, pos,
                               matched_trailing_empty_string,
                               pattern_index_sequence, backtrack_table, ret,
                               results,
                               rebinds, fresh_trailing, rearmed>>

(***************************************************************************)
(* alternation_match.                                                      *)
(***************************************************************************)
\* compute_match on an alternation: dive and call the first child.
AlternationEnter ==
    /\ mode = "call"
    /\ pattern.tag = "Alt"
    /\ LET frame == [BlankFrame EXCEPT
                        !.fn = "alt",
                        !.old_position = Current(pos, target),
                        !.old_pattern = pattern]
       IN  /\ pattern' = pattern.children[1]
           /\ pattern_index_sequence' = Dive(pattern_index_sequence)
           /\ stack' = Append(stack, frame)
           /\ mode' = "call"
           /\ UNCHANGED <<scan, source, target, pos, matched_trailing_empty_string,
                          backtrack_table, ret, results,
                          rebinds, fresh_trailing, rearmed>>

\* Faulty variants of AlternationContinues: the loop never goes on to a
\* later child; the loop goes on whatever the child returned.
AlternationStops(child_match) == FALSE

AlternationExhaustive(child_match) == TRUE

\* The `for child in children` loop goes on to the next child only when the
\* child it has just matched failed.
AlternationContinues(child_match) == ~child_match.some

\* A child returned to alternation_match: return its match, or restore the
\* entry position and call the next child, or fail after the last child.
AlternationStep ==
    /\ mode = "ret"
    /\ Top.fn = "alt"
    /\ LET f == Top
           next_index == f.child_index + 1
       IN  IF ~AlternationContinues(ret)
           THEN ComputeReturn(ret, f.old_pattern,
                              BubbleUp(pattern_index_sequence), pos,
                              backtrack_table, Popped)
           ELSE IF next_index < Len(f.old_pattern.children)
           THEN /\ pos' = f.old_position
                /\ pattern_index_sequence' =
                       AppointNextChild(pattern_index_sequence)
                /\ pattern' = f.old_pattern.children[next_index + 1]
                /\ stack' = ReplaceTop([f EXCEPT !.child_index = next_index])
                /\ mode' = "call"
                /\ UNCHANGED <<scan, source, target, matched_trailing_empty_string,
                               backtrack_table, ret, results,
                               rebinds, fresh_trailing, rearmed>>
           ELSE ComputeReturn(ret, f.old_pattern,
                              BubbleUp(AppointNextChild(pattern_index_sequence)),
                              f.old_position, backtrack_table, Popped)

(***************************************************************************)
(* concatenation_match.                                                    *)
(***************************************************************************)
\* Faulty variant of ConcatPrev: no sibling is ever resumed.
ConcatPrevNone(children, child_index, table) == NoPrev

\* The nearest sibling before child_index that has a table position and
\* whose entry has not backtracked to its start.  The filter is evaluated
\* from the back and reads the table at the stored position; a position
\* outside the table is reported as a failed lookup (see PrevPanics).
RECURSIVE ConcatPrev(_, _, _)
ConcatPrev(children, child_index, table) ==
    IF child_index = 0 THEN NoPrev
    ELSE LET idx == child_index - 1
             table_entry == children[idx + 1]
         IN  IF table_entry = NoIndex
             THEN ConcatPrev(children, idx, table)
             ELSE IF table_entry >= Len(table)
             THEN [some |-> FALSE, idx |-> idx, entry |-> table_entry]
             ELSE IF ~table[table_entry + 1].backtracked_to_last_match_start
             THEN SomePrev(idx, table_entry)
             ELSE ConcatPrev(children, idx, table)

PrevPanics(prev) == ~prev.some /\ prev.entry # NoIndex

\* The condition of the re-arm: the child has a stored table position, a
\* sibling to resume at was found, and the entry at the stored position has
\* backtracked to its start.
Rearms(table, table_info_pos, prev) ==
    /\ table_info_pos # NoIndex
    /\ prev.some
    /\ table[table_info_pos + 1].backtracked_to_last_match_start

\* Re-arm the entry at the child's stored table position when it has
\* backtracked to its start and an earlier sibling can still backtrack.
Rearm(table, table_info_pos, prev, cur, tgt) ==
    IF Rearms(table, table_info_pos, prev)
    THEN [table EXCEPT ![table_info_pos + 1] =
             [@ EXCEPT !.last_match_start = cur,
                       !.last_match_end = Len(tgt),
                       !.backtracked_to_last_match_start = FALSE]]
    ELSE table

\* One pass through the head of the while loop for child f.child_index:
\* find prev, make the child the current pattern, re-arm its entry, and
\* call compute_match on it.
ConcatDrive(f, seq, p, stk) ==
    LET table_info_pos == f.children[f.child_index + 1]
        prev == ConcatPrev(f.children, f.child_index, backtrack_table)
    IN  IF \/ PrevPanics(prev)
           \/ (table_info_pos # NoIndex /\ table_info_pos >= Len(backtrack_table))
        THEN Panic
        ELSE /\ pattern' = f.old_pattern.children[f.child_index + 1]
             /\ pattern_index_sequence' = seq
             /\ pos' = p
             /\ backtrack_table' = Rearm(backtrack_table, table_info_pos, prev,
                                         Current(p, target), target)
             /\ rearmed' =
                    (IF Rearms(backtrack_table, table_info_pos, prev)
                     THEN rearmed \cup
                          {backtrack_table[table_info_pos + 1].index_sequence}
                     ELSE rearmed)
             /\ stack' = Append(stk, [f EXCEPT !.prev = prev])
             /\ mode' = "call"
             /\ UNCHANGED <<scan, source, target, matched_trailing_empty_string,
                            ret, results,
                            rebinds, fresh_trailing>>

\* compute_match on a concatenation: dive and drive the first child.
ConcatenationEnter ==
    /\ mode = "call"
    /\ pattern.tag = "Concat"
    /\ LET cur == Current(pos, target)
           frame == [BlankFrame EXCEPT
                        !.fn = "concat",
                        !.old_position = cur,
                        !.old_pattern = pattern,
                        !.children = [i \in 1..Len(pattern.children) |-> NoIndex],
                        !.match_region_end = cur]
       IN  ConcatDrive(frame, Dive(pattern_index_sequence), pos, stack)

\* Faulty variant of FailedPosition: the cursor stays where the failing
\* child left it.
FailedPositionKept(old_position, p) == p

\* The cursor a failing concatenation leaves: `set_position(old_position)`.
FailedPosition(old_position, p) == old_position

\* A child returned to concatenation_match.
ConcatenationStep ==
    /\ mode = "ret"
    /\ Top.fn = "concat"
    /\ LET f == Top
           ci == f.child_index
           first_backtrackable_match ==
               f.children[ci + 1] = NoIndex /\ supports_backtracking(pattern)
           table_pos == BinarySearch(backtrack_table, pattern_index_sequence)
       IN  IF ret.some
           THEN IF first_backtrackable_match /\ ~table_pos.found
                THEN Panic
                ELSE LET g == [f EXCEPT
                                 !.match_region_end = ret.end,
                                 !.children[ci + 1] =
                                     IF first_backtrackable_match
                                     THEN table_pos.index ELSE @,
                                 !.child_index = ci + 1]
                         seq == AppointNextChild(pattern_index_sequence)
                     IN  IF ci + 1 < Len(f.children)
                         THEN ConcatDrive(g, seq, pos, Popped)
                         ELSE ComputeReturn(
                                  SomeMatch(f.old_position, g.match_region_end),
                                  f.old_pattern, BubbleUp(seq), pos,
                                  backtrack_table, Popped)
           ELSE IF f.prev.some
           THEN IF f.prev.entry >= Len(backtrack_table)
                THEN Panic
                ELSE ConcatDrive(
                         [f EXCEPT !.child_index = f.prev.idx],
                         SetLast(pattern_index_sequence, f.prev.idx),
                         backtrack_table[f.prev.entry + 1].last_match_start,
                         Popped)
           ELSE ComputeReturn(NoMatch, f.old_pattern,
                              BubbleUp(pattern_index_sequence),
                              FailedPosition(f.old_position, pos),
                              backtrack_table, Popped)

(***************************************************************************)
(* Inputs: pattern strings and target strings.                             *)
(***************************************************************************)
(***************************************************************************)
(* escape (matcher/mod.rs): two backslashes are pushed before every        *)
(* character of METACHARACTERS, which does not list the plus sign.         *)
(***************************************************************************)
METACHARACTERS == {"(", ")", "\\", "|", "*", ".", "?"}

RECURSIVE Escape(_)
Escape(s) ==
    IF s = <<>> THEN <<>>
    ELSE (IF Head(s) \in METACHARACTERS
          THEN <<"\\", "\\", Head(s)>>
          ELSE <<Head(s)>>) \o Escape(Tail(s))

TargetAlphabet == {"a", "b"}

Targets == UNION {[1..n -> TargetAlphabet] : n \in 0..MaxTargetLen}

\* Pattern strings matched against every target of Targets.
Sources ==
    { <<>>,
      <<"a">>,
      <<"b">>,
      <<".">>,
      <<"a", "*">>,
      <<"a", "+", "b">>,
      <<"a", "?", "b">>,
      <<".", "*", "b">>,
      <<"a", "|", "b">>,
      <<"(", "a", "b", ")", "+">>,
      <<"(", "a", "|", "b", ")", "+", "b">>,
      <<"(", "a", "*", ")", "*">>,
      <<"a", "*", "b", "*", "a">>,
      <<"(", "a", "?", ")", "*">>,
      <<"a", "|", "a", "b">>,
      <<"(", "|", ")">>,
      <<"(", "a", "*", "b", ")", "+">>,
      <<"(", "a", "|", "a", "b", ")", "b">>,
      <<"(", "a", "+", "|", "b", ")", "*", "a">>,
      <<".", "*", "a", ".">>,
      <<"a", "?", "a", "?", "a">>,
      <<"(", "a", "|", "b", ")", "*">>,
      <<"(", "a", "|", ")", "*">>,
      <<"a", "|", "b", "|">>,
      <<"\\", "a", "b">>,
      <<"(", ")", "*">>,
      <<"(", "a">>,
      <<"a", ")">>,
      <<"a", "*", "*">>,
      <<"a", "+", "?">>,
      <<"(", "a", ")", "*", "+">>,
      <<"(", "a", "*", "*", ")">>,
      <<"a", "*", "*", "b">>,
      <<"a", "\\">>,
      <<"\\">>,
      <<"\\", "\\">>,
      <<"|", "a">>,
      <<"a", "|">>,
      <<"|">>,
      <<"a", "*", "*", ")">>,
      <<"a", "*", "*", "(">>,
      <<"(", "(", "a", ")">>,
      <<"(", "a", "|", "b">>,
      <<"(", "a", ")">>,
      <<"(", "a", ")", "?">>,
      <<"a", "*", "a", "?", "b">>,
      <<"(", "a", "*", ")", "a">>,
      <<"a", "*", "(", "a", "+", "|", "b", ")", "b", "*", "c">> }

\* The end-to-end scenarios: a pattern string with its own target.
ScenarioInputs ==
    { [source |-> <<>>, target |-> <<"a", "b", "c">>],
      [source |-> <<"a", "*">>,
       target |-> <<"a", "a", "a", "b", "a", "a">>],
      [source |-> <<"a", "|", "b", "c">>,
       target |-> <<"x", "a", "b", "c", "b", "c">>],
      [source |-> <<"\\", "(", ".", "*", "\\", ")">>,
       target |-> <<"x", "(", "h", "i", ")", "y", "(", "o", "k", ")">>],
      [source |-> <<"(", "a", "|", "b", ")", "+", "c">>,
       target |-> <<"a", "a", "b", "a", "c">>],
      [source |-> <<"a">>, target |-> <<"b", "a", "n", "a", "n", "a">>] }

\* The strings given to escape: ordinary characters, every metacharacter
\* and the backslash.
EscapeAlphabet == {"a", "b", "(", ")", "|", "?", "*", "+", ".", "\\"}

EscapeStrings == UNION {[1..n -> EscapeAlphabet] : n \in 0..MaxEscapeLen}

\* Matcher::new(escape(s), s)
EscapeInputs == {[source |-> Escape(s), target |-> s] : s \in EscapeStrings}

Inputs ==
    ScenarioInputs \cup EscapeInputs
        \cup {[source |-> s, target |-> t] : s \in Sources, t \in Targets}

(***************************************************************************)
(* A Scanner polled on its own, one call of Scanner::next per step, until  *)
(* it returns None.                                                        *)
(***************************************************************************)
MaxScanLen == 4

ScanAlphabet == {"a", "(", ")", "|", "\\", "*"}

ScanSources == UNION {[1..n -> ScanAlphabet] : n \in 0..MaxScanLen}

\* Scanner::new(src), before the first call of next().
NewScan(src) == [scanner |-> NewScanner(src), tokens |-> <<>>, ended |-> FALSE]

ScanInit ==
    /\ source \in ScanSources
    /\ scan = NewScan(source)
    /\ mode = "scan"
    /\ target = <<>>
    /\ pattern = EmptyNode
    /\ pos = 0
    /\ matched_trailing_empty_string = FALSE
    /\ pattern_index_sequence = <<>>
    /\ backtrack_table = <<>>
    /\ stack = <<>>
    /\ ret = NoMatch
    /\ results = <<>>
    /\ rebinds = 0
    /\ fresh_trailing = FALSE
    /\ rearmed = {}

\* One call of Scanner::next.
ScannerPoll ==
    /\ mode = "scan"
    /\ ~scan.ended
    /\ LET read == ScannerNext(scan.scanner)
       IN  scan' = [scanner |-> read.scanner,
                    tokens |-> (IF read.token.name = "End" THEN scan.tokens
                                ELSE Append(scan.tokens, read.token)),
                    ended |-> read.token.name = "End"]
    /\ UNCHANGED <<source, pattern, target, pos, matched_trailing_empty_string,
                   pattern_index_sequence, backtrack_table, stack, mode, ret,
                   results, rebinds, fresh_trailing, rearmed>>

ScanNext == ScannerPoll

ScanSpec == ScanInit /\ [][ScanNext]_vars

(***************************************************************************)
(* Matcher::new: the state after construction.  When the pattern does not  *)
(* compile there is no matcher (mode "error").                             *)
(***************************************************************************)
Init ==
    \E input \in Inputs :
        LET compiled == Parse(input.source)
        IN  /\ source = input.source
            /\ target = input.target
            /\ pattern = compiled.regexp
            /\ mode = (IF compiled.status = "ok" THEN "idle" ELSE "error")
            /\ pos = 0
            /\ matched_trailing_empty_string = FALSE
            /\ pattern_index_sequence = <<>>
            /\ backtrack_table = <<>>
            /\ stack = <<>>
            /\ ret = NoMatch
            /\ results = <<>>
            /\ rebinds = 0
            /\ fresh_trailing = FALSE
            /\ rearmed = {}
            /\ scan = NewScan(input.source)

\* Faulty variant of AssignedPosition: the cursor is left where it was.
PositionKept(p) == p

(***************************************************************************)
(* assign_match_target, called between two calls of next(): bind target t, *)
(* reset the cursor, clear the index path and the table.                   *)
(***************************************************************************)
\* The cursor assign_match_target sets.
AssignedPosition(p) == 0

AssignMatchTarget ==
    /\ mode = "idle"
    /\ rebinds < MaxRebinds
    /\ \E t \in Targets :
           /\ target' = t
           /\ pos' = AssignedPosition(pos)
           /\ pattern_index_sequence' = <<>>
           /\ backtrack_table' = <<>>
           /\ results' = <<>>
           /\ rebinds' = rebinds + 1
           /\ fresh_trailing' = FALSE
           /\ rearmed' = {}
           /\ UNCHANGED <<scan, source, pattern, matched_trailing_empty_string,
                          stack, mode, ret>>

Next ==
    \/ AssignMatchTarget
    \/ NextCall
    \/ NextStep
    \/ EmptyExpressionMatch
    \/ CharacterExpressionMatch
    \/ GroupEnter
    \/ GroupStep
    \/ AlternationEnter
    \/ AlternationStep
    \/ ConcatenationEnter
    \/ ConcatenationStep

Spec == Init /\ [][Next]_vars

\* The matcher is sequential code: a step that can be taken is taken, and
\* the caller keeps calling next() until the bound on None results.
FairSpec == Init /\ [][Next]_vars /\ WF_vars(Next)

(***************************************************************************)
(* Observations on a run.                                                  *)
(***************************************************************************)
\* next() has returned None at least once and no call is in progress.
Exhausted == mode = "idle" /\ NoneCount >= 1

\* The number of Some results returned before the first None.
MatchCount ==
    IF \A i \in 1..Len(results) : results[i].some
    THEN Len(results)
    ELSE (CHOOSE i \in 1..Len(results) :
              /\ ~results[i].some
              /\ \A j \in 1..(i - 1) : results[j].some) - 1

\* The ranges returned before the first None, as <<start, end>> pairs.
Ranges == [i \in 1..MatchCount |-> <<results[i].start, results[i].end>>]

\* The run yields exactly the ranges of expected and then None: what was
\* returned so far is a prefix of expected, all of it once exhausted, and
\* nothing but None after the first None.
Yields(expected) ==
    /\ MatchCount <= Len(expected)
    /\ \A i \in 1..MatchCount : Ranges[i] = expected[i]
    /\ Exhausted => MatchCount = Len(expected)
    /\ \A i \in (MatchCount + 1)..Len(results) : ~results[i].some

\* One empty range at every position 0..n.
EmptyAtEveryPosition(n) == [i \in 1..(n + 1) |-> <<i - 1, i - 1>>]

(***************************************************************************)
(* Observations on the pattern string and its tokens.                      *)
(***************************************************************************)
RECURSIVE TokensFrom(_)

TokensAfter(scanned) ==
    IF scanned.token.name = "End" THEN <<>>
    ELSE <<scanned.token>> \o TokensFrom(scanned.scanner)

\* The tokens the scanner yields from state sc on, until it returns None.
TokensFrom(sc) == TokensAfter(ScannerNext(sc))

Tokens(src) == TokensFrom(NewScanner(src))

QuantifierChars == {"?", "*", "+"}

\* A quantifier character directly after another one, in a pattern string
\* without backslashes (so both are quantifier tokens).
HasStackedQuantifiers(src) ==
    /\ \A i \in 1..Len(src) : src[i] # "\\"
    /\ \E i \in 1..(Len(src) - 1) :
           src[i] \in QuantifierChars /\ src[i + 1] \in QuantifierChars

\* The number of backslashes the pattern string ends with.
RECURSIVE TrailingBackslashes(_)
TrailingBackslashes(src) ==
    IF src = <<>> \/ src[Len(src)] # "\\" THEN 0
    ELSE 1 + TrailingBackslashes(SubSeq(src, 1, Len(src) - 1))

\* The pattern string ends with a backslash that is not itself escaped and
\* has no character after it.
EndsWithLoneBackslash(src) == TrailingBackslashes(src) % 2 = 1

(***************************************************************************)
(* Reference semantics of the pattern language: RefEnds(n, tgt, i) is the  *)
(* set of positions j such that expression n matches tgt[i..j).            *)
(***************************************************************************)
RECURSIVE RefEnds(_, _, _)
RECURSIVE RefOnce(_, _, _)
RECURSIVE RefConcat(_, _, _, _)
RECURSIVE RefReach(_, _, _)

\* One occurrence of n, its quantifier left aside.
RefOnce(n, tgt, i) ==
    CASE n.tag = "Empty" -> {i}
      [] n.tag = "Char" ->
            IF i < Len(tgt) /\ (n.value = NoChar \/ tgt[i + 1] = n.value)
            THEN {i + 1} ELSE {}
      [] n.tag = "Group" -> RefEnds(n.children[1], tgt, i)
      [] n.tag = "Alt" ->
            UNION {RefEnds(n.children[k], tgt, i) : k \in 1..Len(n.children)}
      [] n.tag = "Concat" -> RefConcat(n.children, 1, tgt, {i})

RefConcat(children, k, tgt, from) ==
    IF k > Len(children) THEN from
    ELSE RefConcat(children, k + 1, tgt,
                   UNION {RefEnds(children[k], tgt, j) : j \in from})

RefReachStep(n, tgt, from, further) ==
    IF further \subseteq from THEN from
    ELSE RefReach(n, tgt, from \cup further)

\* Every position reachable from `from` by repetitions of n.
RefReach(n, tgt, from) ==
    RefReachStep(n, tgt, from, UNION {RefOnce(n, tgt, j) : j \in from})

RefEnds(n, tgt, i) ==
    CASE n.quantifier = "None" -> RefOnce(n, tgt, i)
      [] n.quantifier = "ZeroOrOne" -> {i} \cup RefOnce(n, tgt, i)
      [] n.quantifier = "ZeroOrMore" -> RefReach(n, tgt, {i})
      [] n.quantifier = "OneOrMore" -> RefReach(n, tgt, RefOnce(n, tgt, i))

SetMax(S) == CHOOSE x \in S : \A y \in S : y <= x

\* The expression matches the empty string.
Nullable(n) == 0 \in RefEnds(n, <<>>, 0)

\* The expression has a non-empty match somewhere in tgt.
HasNonEmptyMatch(n, tgt) ==
    \E i \in 0..Len(tgt) : \E j \in RefEnds(n, tgt, i) : j > i

(***************************************************************************)
(* Properties.                                                             *)
(***************************************************************************)
\* C1: successive matches never overlap: of two consecutive Some results of
\* next() on one matcher, the earlier ends at or before the start of the
\* later.
C1_NonOverlap ==
    \A i \in 1..(Len(results) - 1) :
        (results[i].some /\ results[i + 1].some)
            => results[i].end <= results[i + 1].start

\* A non-empty match followed by another match.
C1_Witness ==
    \E i \in 1..(Len(results) - 1) :
        /\ results[i].some /\ results[i + 1].some
        /\ results[i].start < results[i].end
        /\ results[i + 1].start < results[i + 1].end

\* C2: iteration terminates: every call of next() returns after finitely
\* many steps of the root-attempt, group and concatenation loops, and the
\* iterator reaches None after finitely many matches.
C2_Terminates == (mode = "idle") ~> Exhausted

\* None was reached on a run in which the concatenation a*b*a had to resume
\* its earlier children to find its match in aab.
C2_Witness ==
    /\ Exhausted
    /\ source = <<"a", "*", "b", "*", "a">>
    /\ target = <<"a", "a", "b">>
    /\ Ranges = <<(<<0, 2>>)>>

\* C3: greediness: a match of a pattern X* or X+ (X a character, a dot or a
\* group, whatever the group holds) consumes the longest run of repetitions
\* of X from its start.  Stated for X* or X+ as the whole pattern, where no
\* remainder of the pattern limits the run.
C3_Greedy ==
    (mode = "idle" /\ pattern.tag \in {"Char", "Group"}
                   /\ pattern.quantifier \in {"ZeroOrMore", "OneOrMore"})
        => \A i \in 1..Len(results) :
               results[i].some
                   => results[i].end =
                          SetMax(RefEnds(pattern, target, results[i].start)
                                     \cup {results[i].start})

\* C4: ordered alternation: alternation_match calls its first child first;
\* when a child matches, the alternation returns that match and calls no
\* later child; a later child is called only after the child before it
\* failed, and from the alternation's entry position.
C4_OrderedAlternation ==
    [][ /\ (mode = "call" /\ pattern.tag = "Alt")
            => (mode' = "call" /\ pattern' = pattern.children[1]
                               /\ pos' = pos)
        /\ (mode = "ret" /\ Top.fn = "alt" /\ ret.some)
            => (mode' = "ret" /\ ret' = ret /\ stack' = Popped
                              /\ pattern' = Top.old_pattern)
        /\ (mode = "ret" /\ Top.fn = "alt" /\ mode' = "call")
            => (/\ ~ret.some
                /\ pos' = Top.old_position
                /\ pattern' = Top.old_pattern.children[Top.child_index + 2])
      ]_vars

\* In a|ab on ab the first child has matched [0,1) and the alternation is
\* about to return it, though the second child would match [0,2).
C4_Witness ==
    /\ source = <<"a", "|", "a", "b">>
    /\ target = <<"a", "b">>
    /\ mode = "ret"
    /\ Top.fn = "alt"
    /\ Top.child_index = 0
    /\ ret = SomeMatch(0, 1)

C6_EmptyPattern ==
    (mode = "idle" /\ source = <<>>)
        => /\ Yields(EmptyAtEveryPosition(Len(target)))
           /\ target = <<"a", "b", "c">>
                  => Yields(<< <<0, 0>>, <<1, 1>>, <<2, 2>>, <<3, 3>> >>)

\* The empty pattern has been iterated to None over abc.
C6_Witness ==
    /\ Exhausted
    /\ source = <<>>
    /\ target = <<"a", "b", "c">>
    /\ MatchCount = 4

\* C7 as stated: a* over aaabaa yields exactly [0,3), [4,6), [6,6) and then
\* None.
C7_StarScenarioAsStated ==
    (mode = "idle" /\ source = <<"a", "*">>
                   /\ target = <<"a", "a", "a", "b", "a", "a">>)
        => Yields(<< <<0, 3>>, <<4, 6>>, <<6, 6>> >>)

\* C7 amended: a* over aaabaa yields exactly [0,3), [3,3), [4,6), [6,6) and
\* then None: the empty match at the b is returned as well.
C7_StarScenario ==
    (mode = "idle" /\ source = <<"a", "*">>
                   /\ target = <<"a", "a", "a", "b", "a", "a">>)
        => Yields(<< <<0, 3>>, <<3, 3>>, <<4, 6>>, <<6, 6>> >>)

\* a* has been iterated to None over aaabaa.
C7_Witness ==
    /\ Exhausted
    /\ source = <<"a", "*">>
    /\ target = <<"a", "a", "a", "b", "a", "a">>
    /\ MatchCount = 4

\* C8 as stated: a|bc over xabcbc yields exactly [1,2), [3,5) and then None.
C8_AlternationScenarioAsStated ==
    (mode = "idle" /\ source = <<"a", "|", "b", "c">>
                   /\ target = <<"x", "a", "b", "c", "b", "c">>)
        => Yields(<< <<1, 2>>, <<3, 5>> >>)

\* C8 amended: a|bc over xabcbc yields exactly [1,2), [2,4), [4,6) and then
\* None: both occurrences of bc are returned, at their own positions.
C8_AlternationScenario ==
    (mode = "idle" /\ source = <<"a", "|", "b", "c">>
                   /\ target = <<"x", "a", "b", "c", "b", "c">>)
        => Yields(<< <<1, 2>>, <<2, 4>>, <<4, 6>> >>)

\* a|bc has been iterated to None over xabcbc.
C8_Witness ==
    /\ Exhausted
    /\ source = <<"a", "|", "b", "c">>
    /\ target = <<"x", "a", "b", "c", "b", "c">>
    /\ MatchCount = 3

\* C9 as stated: \(.*\) over x(hi)y(ok) yields exactly [1,5), [6,10) and
\* then None.
C9_EscapedParensScenarioAsStated ==
    (mode = "idle" /\ source = <<"\\", "(", ".", "*", "\\", ")">>
                   /\ target = <<"x", "(", "h", "i", ")", "y", "(", "o", "k",
                                 ")">>)
        => Yields(<< <<1, 5>>, <<6, 10>> >>)

\* C9 amended: \(.*\) over x(hi)y(ok) yields exactly the one match [1,10)
\* and then None: the greedy .* runs to the last closing parenthesis.
C9_EscapedParensScenario ==
    (mode = "idle" /\ source = <<"\\", "(", ".", "*", "\\", ")">>
                   /\ target = <<"x", "(", "h", "i", ")", "y", "(", "o", "k",
                                 ")">>)
        => Yields(<< <<1, 10>> >>)

\* \(.*\) has been iterated to None over x(hi)y(ok).
C9_Witness ==
    /\ Exhausted
    /\ source = <<"\\", "(", ".", "*", "\\", ")">>
    /\ target = <<"x", "(", "h", "i", ")", "y", "(", "o", "k", ")">>
    /\ MatchCount = 1

\* C10: (a|b)+c over aabac yields exactly the one match [0,5) and then
\* None.
C10_GroupAlternationScenario ==
    (mode = "idle" /\ source = <<"(", "a", "|", "b", ")", "+", "c">>
                   /\ target = <<"a", "a", "b", "a", "c">>)
        => Yields(<< <<0, 5>> >>)

\* (a|b)+c has been iterated to None over aabac.
C10_Witness ==
    /\ Exhausted
    /\ source = <<"(", "a", "|", "b", ")", "+", "c">>
    /\ target = <<"a", "a", "b", "a", "c">>
    /\ MatchCount = 1

\* The ranges [i, i+1) of the occurrences of character c in tgt at index
\* from or later, in increasing order.
RECURSIVE LiteralOccurrences(_, _, _)
LiteralOccurrences(c, tgt, from) ==
    IF from >= Len(tgt) THEN <<>>
    ELSE IF tgt[from + 1] = c
         THEN <<(<<from, from + 1>>)>> \o LiteralOccurrences(c, tgt, from + 1)
         ELSE LiteralOccurrences(c, tgt, from + 1)

\* C11: a pattern of one unquantified literal character c yields exactly
\* the ranges [i, i+1) of the indices i with target[i] = c, in increasing
\* order, and then None; a over banana yields [1,2), [3,4), [5,6).
C11_SingleLiteral ==
    (mode = "idle" /\ source \in {<<"a">>, <<"b">>})
        => /\ Yields(LiteralOccurrences(source[1], target, 0))
           /\ (source = <<"a">> /\ target = <<"b", "a", "n", "a", "n", "a">>)
                  => Yields(<< <<1, 2>>, <<3, 4>>, <<5, 6>> >>)

\* a has been iterated to None over banana.
C11_Witness ==
    /\ Exhausted
    /\ source = <<"a">>
    /\ target = <<"b", "a", "n", "a", "n", "a">>
    /\ MatchCount = 3

\* C12: re-binding resets the matcher: after assign_match_target(t) the
\* results of next() are those of a matcher newly built on t.  Right after
\* binding, the matcher is in the state Matcher::new gives, but for the
\* flag matched_trailing_empty_string, which assign_match_target leaves as
\* it was; and at every call of next() the guard decides with the flag left
\* behind as it would with the flag of a new matcher, so the two runs stay
\* in step and no state of the earlier target reaches the results.
C12_RebindIsFresh ==
    /\ (mode = "idle" /\ results = <<>>)
           => /\ pos = 0
              /\ pattern_index_sequence = <<>>
              /\ backtrack_table = <<>>
              /\ stack = <<>>
              /\ pattern = Parse(source).regexp
    /\ mode = "idle"
           => (TrailingEmptyDone(pos, target, matched_trailing_empty_string)
                   <=> TrailingEmptyDone(pos, target, fresh_trailing))

\* Matches have been returned on a target bound by assign_match_target
\* while the flag set on the earlier target was still standing where a new
\* matcher would not have set it yet.
C12_Witness ==
    /\ rebinds >= 1
    /\ mode = "idle"
    /\ matched_trailing_empty_string
    /\ ~fresh_trailing
    /\ MatchCount >= 1

\* C13 as stated: when next() returns a non-empty match m1 and the next call
\* returns a match m2, then m1.end < m2.start.
C13_StrictAfterNonEmpty ==
    \A i \in 1..(Len(results) - 1) :
        (/\ results[i].some /\ results[i + 1].some
         /\ results[i].start < results[i].end)
            => results[i].end < results[i + 1].start

\* C13 amended: after a non-empty match m1 the next match m2 starts at
\* m1.end or later, and may start exactly at m1.end (adjacent matches); the
\* inequality is strict when m1 is empty.
C13_AdjacentAfterNonEmpty ==
    \A i \in 1..(Len(results) - 1) :
        (results[i].some /\ results[i + 1].some)
            => IF results[i].start < results[i].end
               THEN results[i + 1].start >= results[i].end
               ELSE results[i + 1].start > results[i].end

\* Two non-empty matches, the second starting where the first ended.
C13_Witness ==
    \E i \in 1..(Len(results) - 1) :
        /\ results[i].some /\ results[i + 1].some
        /\ results[i].start < results[i].end
        /\ results[i + 1].start = results[i].end
        /\ results[i + 1].start < results[i + 1].end

\* C14: when next() returns an empty match [p,p), the next call returns
\* None or a match that starts exactly at p + 1; the matcher never matches
\* at p again.
C14_ProgressAfterEmpty ==
    \A i \in 1..(Len(results) - 1) :
        (results[i].some /\ results[i].start = results[i].end)
            => \/ ~results[i + 1].some
               \/ results[i + 1].start = results[i].start + 1

\* An empty match [p,p) followed by a non-empty match that starts at p + 1.
C14_Witness ==
    \E i \in 1..(Len(results) - 1) :
        /\ results[i].some /\ results[i + 1].some
        /\ results[i].start = results[i].end
        /\ results[i + 1].start = results[i].start + 1
        /\ results[i + 1].start < results[i + 1].end

\* C15: every match [start, end) returned by next() satisfies
\* 0 <= start <= end <= target.len().
C15_RangeWithinTarget ==
    \A i \in 1..Len(results) :
        results[i].some
            => /\ 0 <= results[i].start
               /\ results[i].start <= results[i].end
               /\ results[i].end <= Len(target)

\* A non-empty match that ends at the end of the target has been returned,
\* and an empty match at the end of the target after it.
C15_Witness ==
    \E i \in 1..(Len(results) - 1) :
        /\ results[i].some /\ results[i + 1].some
        /\ results[i].start < results[i].end
        /\ results[i].end = Len(target)
        /\ results[i + 1] = SomeMatch(Len(target), Len(target))

\* C16: escape round trip: for any string s, the pattern escape(s) compiles
\* and its first match against target s is [0, s.len()).
C16_EscapeRoundTrip ==
    (rebinds = 0 /\ source = Escape(target))
        => /\ mode # "error"
           /\ (mode = "idle" /\ Len(results) >= 1)
                  => results[1] = SomeMatch(0, Len(target))

\* C17: compiling a pattern in which a quantifier token directly follows
\* another quantifier (a**, a+?, (a)*+), at top level or inside a group,
\* returns a syntax error and never yields a compiled pattern.
C17_StackedQuantifiersRejected ==
    HasStackedQuantifiers(source) => mode = "error"

\* C18: compiling a pattern that ends with an unescaped backslash without
\* operand fails: the scanner emits no token for the lone backslash and no
\* compiled pattern is produced.
C18_TrailingBackslashRejected ==
    EndsWithLoneBackslash(source)
        => /\ mode = "error"
           /\ \A i \in 1..Len(Tokens(source)) :
                  Tokens(source)[i].position # Len(source) - 1

\* C19: for a pattern that starts with an unescaped | followed by further
\* characters (|a), the scanner emits an Empty token at position 0 before
\* the Pipe token, and the pattern compiles to an alternation whose first
\* alternative is Empty.
C19_LeadingPipeCompiles ==
    (Len(source) >= 2 /\ source[1] = "|")
        => /\ Tokens(source)[1].name = "Empty"
           /\ Tokens(source)[1].position = 0
           /\ Tokens(source)[2].name = "Pipe"
           /\ mode # "error"
           /\ Parse(source).regexp.tag = "Alt"
           /\ Parse(source).regexp.children[1].tag = "Empty"

\* The last token of the pattern string, or NoToken.
LastToken(src) ==
    IF Tokens(src) = <<>> THEN NoToken ELSE Tokens(src)[Len(Tokens(src))]

\* The last child of expression n.
LastChild(n) == n.children[Len(n.children)]

\* C20: for a pattern that ends with an unescaped | (a|), the scanner emits
\* an Empty token with the cursor at the end of the source, after the Pipe
\* token, and the pattern compiles to an alternation whose last alternative
\* is Empty.
C20_TrailingPipeCompiles ==
    (/\ Len(source) >= 2
     /\ source[Len(source)] = "|"
     /\ TrailingBackslashes(SubSeq(source, 1, Len(source) - 1)) % 2 = 0)
        => /\ LastToken(source).name = "Empty"
           /\ LastToken(source).position = Len(source)
           /\ mode # "error"
           /\ Parse(source).regexp.tag = "Alt"
           /\ LastChild(Parse(source).regexp).tag = "Empty"

\* A RightParen token that no earlier LeftParen token is left to match:
\* depth counts the LeftParen tokens still open.
RECURSIVE UnmatchedClose(_, _)
UnmatchedClose(tokens, depth) ==
    IF tokens = <<>> THEN FALSE
    ELSE IF Head(tokens).name = "RightParen"
    THEN depth = 0 \/ UnmatchedClose(Tail(tokens), depth - 1)
    ELSE IF Head(tokens).name = "LeftParen"
    THEN UnmatchedClose(Tail(tokens), depth + 1)
    ELSE UnmatchedClose(Tail(tokens), depth)

\* The number of LeftParen tokens that no later RightParen token closes.
RECURSIVE OpenAtEnd(_, _)
OpenAtEnd(tokens, depth) ==
    IF tokens = <<>> THEN depth
    ELSE IF Head(tokens).name = "RightParen"
    THEN OpenAtEnd(Tail(tokens), IF depth > 0 THEN depth - 1 ELSE 0)
    ELSE IF Head(tokens).name = "LeftParen"
    THEN OpenAtEnd(Tail(tokens), depth + 1)
    ELSE OpenAtEnd(Tail(tokens), depth)

\* C21: a pattern string that has an unescaped `)` without a matching earlier
\* unescaped `(` does not compile: Matcher::new returns a syntax error.
C21_UnbalancedCloseRejected ==
    UnmatchedClose(Tokens(source), 0) => mode = "error"

\* C22: a pattern string that has an unescaped `(` which no `)` closes before
\* the end of the pattern does not compile.
C22_UnclosedOpenRejected ==
    OpenAtEnd(Tokens(source), 0) > 0 => mode = "error"

\* C23: a group without quantifier or with `?` matches its inner expression
\* at most once per invocation: the range group_match returns is the range
\* of one match of the inner expression (or, for `?`, the empty range where
\* the group was invoked).
C23_GroupMatchesOnce ==
    (/\ mode = "ret"
     /\ pattern.tag = "Group"
     /\ pattern.quantifier \in {"None", "ZeroOrOne"}
     /\ ret.some)
        => ret.end \in RefEnds(pattern, target, ret.start)

\* C24: a character or dot expression without quantifier or with `?` never
\* returns a match wider than one character, whichever invocation of it in
\* a root attempt it is.
C24_AtMostOneCharacter ==
    (/\ mode = "ret"
     /\ pattern.tag = "Char"
     /\ pattern.quantifier \in {"None", "ZeroOrOne"}
     /\ ret.some)
        => ret.end - ret.start <= 1

(***************************************************************************)
(* Observations on one step of compute_match.  A step into mode "ret" is   *)
(* the return of compute_match for the expression at the index path        *)
(* pattern_index_sequence' (the bookkeeping of compute_match is part of    *)
(* that step, so backtrack_table still holds what was recorded before).    *)
(***************************************************************************)
\* The normalised cursor at which the returning call was entered.
EntryPosition ==
    IF mode = "call" THEN Current(pos, target)
    ELSE IF Top.fn = "group" THEN Top.start
    ELSE Top.old_position

\* The returning expression has an entry that records a match of it (the
\* entry was not re-armed since), and that match was not empty.
ReturnsWithPriorMatch ==
    /\ mode' = "ret"
    /\ FindEntry(backtrack_table, pattern_index_sequence') # NoIndex
    /\ pattern_index_sequence' \notin rearmed
    /\ LET prior == backtrack_table[FindEntry(backtrack_table,
                                              pattern_index_sequence') + 1]
       IN  prior.last_match_start < prior.last_match_end

\* The end of the match recorded for the returning expression.
PriorEnd ==
    backtrack_table[FindEntry(backtrack_table,
                              pattern_index_sequence') + 1].last_match_end

Unexhausted(q) ==
    /\ \E i \in 1..Len(backtrack_table) :
           /\ backtrack_table[i].index_sequence = q
           /\ backtrack_table[i].backtracked_to_last_match_start
    /\ \E j \in 1..Len(backtrack_table') :
           /\ backtrack_table'[j].index_sequence = q
           /\ ~backtrack_table'[j].backtracked_to_last_match_start

\* The index paths that have an entry.
EntryPaths ==
    {backtrack_table[i].index_sequence : i \in 1..Len(backtrack_table)}

\* The step is the head of a concatenation's loop: it makes a child the
\* current pattern, re-arms, and calls compute_match.
ConcatenationDrives ==
    /\ mode' = "call"
    /\ stack' # <<>>
    /\ stack'[Len(stack')].fn = "concat"

\* C26 as stated: an exhausted entry becomes non-exhausted only through the
\* re-arm step of the parent concatenation, just before it invokes the
\* entry's expression.
C26_OnlyParentRearms ==
    [][\A q \in EntryPaths :
           Unexhausted(q) =>
               (ConcatenationDrives /\ pattern_index_sequence' = q)]_vars

\* C26, amended: an exhausted entry becomes non-exhausted through the
\* re-arm step of a concatenation, or through the bookkeeping of
\* compute_match when the entry's expression returns a non-empty match.
C26_RearmedOrMatchedAgain ==
    [][\A q \in EntryPaths :
           Unexhausted(q) =>
               \/ (ConcatenationDrives /\ q \in rearmed')
               \/ /\ mode' = "ret"
                  /\ pattern_index_sequence' = q
                  /\ ret'.some
                  /\ ret'.start < ret'.end]_vars

\* `(a*)a` on `aa`: inside the group a* matches [0,2) and then [2,2), which
\* exhausts its entry; after `a` has failed the group is resumed at 0 and
\* a* returns [0,1), recorded in the same entry.
C26_Witness ==
    /\ source = <<"(", "a", "*", ")", "a">>
    /\ target = <<"a", "a">>
    /\ rebinds = 0
    /\ mode = "ret"
    /\ pattern_index_sequence = <<0, 0, 0>>
    /\ ret = SomeMatch(0, 1)
    /\ \E i \in 1..Len(backtrack_table) :
           /\ backtrack_table[i].index_sequence = <<0, 0, 0>>
           /\ backtrack_table[i].last_match_end = 1
           /\ ~backtrack_table[i].backtracked_to_last_match_start

\* C27: a sub-matcher that returns failure leaves the normalised cursor
\* where it was when the sub-matcher was entered; so a failed root attempt
\* leaves pos at its anchor, and next() retries exactly one position
\* further.
C27_FailureRestoresCursor ==
    [][/\ (mode' = "ret" /\ ~ret'.some)
              => Current(pos', target) = EntryPosition
       /\ (mode' = "ret" /\ ~ret'.some /\ Len(stack') = 1)
              => pos' = EntryPosition
       /\ (mode = "ret" /\ Top.fn = "next" /\ ~ret.some /\ mode' = "call")
              => pos' = pos + 1]_vars

\* `(ab)+` on `aa`: the inner concatenation has matched `a`, moving the
\* cursor to 1, and fails on `b`; it returns failure with the cursor at 0.
C27_Witness ==
    /\ source = <<"(", "a", "b", ")", "+">>
    /\ target = <<"a", "a">>
    /\ rebinds = 0
    /\ results = <<>>
    /\ mode = "ret"
    /\ pattern.tag = "Concat"
    /\ ~ret.some
    /\ pos = 0

\* The entry of the child at index j of the concatenation whose children
\* have the index paths base \o <<j>>: its table position, NoIndex if none.
SiblingEntry(base, j) == FindEntry(backtrack_table, Append(base, j))

\* The child at index j has an entry that is not exhausted.
CanBacktrackAgain(base, j) ==
    /\ SiblingEntry(base, j) # NoIndex
    /\ ~backtrack_table[SiblingEntry(base, j) + 1]
            .backtracked_to_last_match_start

\* The children before index i that have a non-exhausted entry.
EarlierResumable(base, i) ==
    {j \in 0..(i - 1) : CanBacktrackAgain(base, j)}

\* C28: when a child of a concatenation fails, matching resumes at the
\* nearest earlier sibling that has a non-exhausted entry, with the cursor
\* at the start of that sibling's last match and the index path on that
\* sibling; when there is no such sibling the concatenation fails.
C28_ResumesAtNearestSibling ==
    [][(mode = "ret" /\ Top.fn = "concat" /\ ~ret.some) =>
           LET base == BubbleUp(pattern_index_sequence)
               earlier == EarlierResumable(base, Top.child_index)
           IN  IF earlier # {}
               THEN /\ mode' = "call"
                    /\ pattern_index_sequence' = Append(base, SetMax(earlier))
                    /\ pos' = backtrack_table[
                                  SiblingEntry(base, SetMax(earlier)) + 1]
                                  .last_match_start
               ELSE mode' = "ret" /\ ~ret'.some]_vars

\* C29: before a concatenation invokes a child it re-arms the child's entry
\* (start at the cursor, end at the end of the target, not exhausted) if and
\* only if that entry is exhausted and an earlier sibling has a
\* non-exhausted entry; otherwise the child's entry is left as it is.
C29_RearmsExactlyWhenExhausted ==
    [][ConcatenationDrives =>
           LET q == pattern_index_sequence'
               base == BubbleUp(q)
               before == FindEntry(backtrack_table, q)
               after == FindEntry(backtrack_table', q)
           IN  IF /\ before # NoIndex
                  /\ backtrack_table[before + 1].backtracked_to_last_match_start
                  /\ EarlierResumable(base, q[Len(q)]) # {}
               THEN /\ after # NoIndex
                    /\ backtrack_table'[after + 1] =
                           [index_sequence |-> q,
                            last_match_start |-> Current(pos', target),
                            last_match_end |-> Len(target),
                            backtracked_to_last_match_start |-> FALSE]
               ELSE IF before = NoIndex THEN after = NoIndex
               ELSE /\ after # NoIndex
                    /\ backtrack_table'[after + 1] =
                           backtrack_table[before + 1]]_vars

\* The node of the syntax tree that an index path below expr names: each
\* element is the position of a child; a missing child yields an Empty node
\* marked as absent.
AbsentNode == [tag |-> "Absent"]

RECURSIVE NodeAt(_, _)
NodeAt(expr, path) ==
    IF path = <<>> THEN expr
    ELSE IF Head(path) + 1 \in 1..Len(expr.children)
    THEN NodeAt(expr.children[Head(path) + 1], Tail(path))
    ELSE AbsentNode

\* The node an entry's index sequence names: the first element of a path is
\* the root's own position.
EntryNode(q) ==
    IF q # <<>> /\ Head(q) = 0
    THEN NodeAt(Parse(source).regexp, Tail(q))
    ELSE AbsentNode

\* A root attempt is about to start or has just ended.
BetweenRootAttempts == mode = "idle" \/ (mode = "call" /\ Len(stack) = 1)

\* C30: every entry of the backtrack table belongs to a node that is not the
\* root, is neither an Empty node nor an unquantified character, supports
\* backtracking, and has returned a match since the current root attempt
\* started: the table is empty between root attempts and a path enters the
\* table only in the step in which its node returns a match.
C30_EntriesOfMatchedBacktrackableNodes ==
    [][/\ \A q \in {backtrack_table'[i].index_sequence :
                        i \in 1..Len(backtrack_table')} :
              /\ Len(q) >= 2
              /\ EntryNode(q).tag \notin {"Absent", "Empty"}
              /\ ~(EntryNode(q).tag = "Char" /\ EntryNode(q).quantifier = "None")
              /\ EntryNode(q).parent
              /\ supports_backtracking(EntryNode(q))
              /\ FindEntry(backtrack_table, q) = NoIndex =>
                     /\ mode' = "ret"
                     /\ ret'.some
                     /\ pattern_index_sequence' = q
                     /\ pattern' = EntryNode(q)
       /\ BetweenRootAttempts' => backtrack_table' = <<>>]_vars

\* `(a*)a` on `aa`: the group and the starred character inside it have
\* entries when the unquantified `a` after the group, which never gets one,
\* is about to be matched.
C30_Witness ==
    /\ source = <<"(", "a", "*", ")", "a">>
    /\ target = <<"a", "a">>
    /\ rebinds = 0
    /\ mode = "call"
    /\ pattern_index_sequence = <<0, 1>>
    /\ pattern.tag = "Char" /\ pattern.quantifier = "None"
    /\ Len(backtrack_table) = 2
    /\ FindEntry(backtrack_table, <<0, 0>>) # NoIndex
    /\ FindEntry(backtrack_table, <<0, 0, 0>>) # NoIndex

\* slice::binary_search_by over the index sequences of the table, by
\* bisection of [left, right): Ok(position) of an entry that compares equal,
\* or Err(position where the path would be inserted).
RECURSIVE Bisect(_, _, _, _)
Bisect(table, seq, left, right) ==
    IF left >= right THEN [found |-> FALSE, index |-> left]
    ELSE LET mid == left + ((right - left) \div 2)
             probe == table[mid + 1].index_sequence
         IN  IF probe = seq THEN [found |-> TRUE, index |-> mid]
             ELSE IF SeqLess(probe, seq) THEN Bisect(table, seq, mid + 1, right)
             ELSE Bisect(table, seq, left, mid)

\* The table is strictly increasing in index_sequence.
StrictlySorted(table) ==
    \A i \in 1..Len(table) : \A j \in 1..Len(table) :
        i < j => SeqLess(table[i].index_sequence, table[j].index_sequence)

\* The paths the matcher may look up in the current state: those of the
\* entries, the current path and the paths of its siblings (no expression of
\* Sources has more than four children).
LookupPaths ==
    {backtrack_table[i].index_sequence : i \in 1..Len(backtrack_table)}
        \cup {pattern_index_sequence}
        \cup (IF pattern_index_sequence = <<>> THEN {}
              ELSE {SetLast(pattern_index_sequence, j) :
                        j \in 0..3})

\* C31: the backtrack table is strictly sorted by index_sequence, so it has
\* at most one entry per path, and the binary search by path finds an entry
\* exactly when the linear search by path does, at the same position, and
\* otherwise yields the position that keeps the table sorted.
C31_TableSortedByPath ==
    /\ StrictlySorted(backtrack_table)
    /\ \A q \in LookupPaths :
           LET bisect == Bisect(backtrack_table, q, 0, Len(backtrack_table))
               linear == FindEntry(backtrack_table, q)
           IN  /\ bisect.found <=> linear # NoIndex
               /\ bisect.found => bisect.index = linear
               /\ bisect = BinarySearch(backtrack_table, q)

\* `a*(a+|b)b*c` on `ab`: the entry of `a+` was inserted between the entries
\* of the alternation and of `b*`, which had been recorded before it.
C31_Witness ==
    /\ source = <<"a", "*", "(", "a", "+", "|", "b", ")", "b", "*", "c">>
    /\ target = <<"a", "b">>
    /\ rebinds = 0
    /\ Len(backtrack_table) = 5
    /\ backtrack_table[4].index_sequence = <<0, 1, 0, 0>>
    /\ backtrack_table[5].index_sequence = <<0, 2>>
    /\ mode = "ret" /\ pattern_index_sequence = <<0, 1, 0, 0>> /\ ret.some

\* The suspended invocations of group_match for a group quantified with
\* `*` or `+`.
RepeatingGroupFrames ==
    {i \in 1..Len(stack) :
        stack[i].fn = "group"
            /\ stack[i].quantifier \in {"ZeroOrMore", "OneOrMore"}}

EmptyTokenPlaces(tokens) == {i \in 1..Len(tokens) : tokens[i].name = "Empty"}

\* C33: up to the first None, the scanner emits no two Empty tokens in a row
\* and no two Empty tokens at the same cursor position; a call of next()
\* that yields Empty leaves the cursor where it is, any other call moves it
\* forward by at least one character or returns None; so a source of n
\* characters yields at most 2n + 1 tokens, and the polled stream is the
\* token sequence the parser reads.
C33_OneEmptyPerPosition ==
    [][/\ \A i \in EmptyTokenPlaces(scan'.tokens) :
              \A j \in EmptyTokenPlaces(scan'.tokens) :
                  i < j => /\ j > i + 1
                           /\ scan'.tokens[i].position
                                  < scan'.tokens[j].position
       /\ Len(scan'.tokens) <= 2 * Len(source) + 1
       /\ IF scan'.ended
          THEN /\ scan'.tokens = scan.tokens
               /\ scan'.tokens = Tokens(source)
          ELSE /\ Len(scan'.tokens) = Len(scan.tokens) + 1
               /\ IF scan'.tokens[Len(scan'.tokens)].name = "Empty"
                  THEN scan'.scanner.current = scan.scanner.current
                  ELSE scan'.scanner.current >= scan.scanner.current + 1
       /\ scan'.scanner.current <= Len(source)]_vars

\* `(|)`: the stream LeftParen, Empty, Pipe, Empty, RightParen has ended,
\* with one Empty token at each of the positions 1 and 2.
C33_Witness ==
    /\ source = <<"(", "|", ")">>
    /\ mode = "scan"
    /\ scan.ended
    /\ Len(scan.tokens) = 5
    /\ EmptyTokenPlaces(scan.tokens) = {2, 4}
    /\ scan.tokens[2].position = 1
    /\ scan.tokens[4].position = 2

\* C34: whenever next() has returned, the backtrack table and the index path
\* are empty, no call is suspended and the current pattern is the root; a
\* root attempt starts from the root with the path <<0>> and an empty table;
\* while next() runs, the index path has one element per suspended call
\* (each dive is matched by one bubble_up) and the current pattern is the
\* node that the index path names, on call and on return, success or
\* failure.
C34_NextLeavesMatcherAtRoot ==
    /\ mode = "idle" =>
           /\ backtrack_table = <<>>
           /\ pattern_index_sequence = <<>>
           /\ stack = <<>>
           /\ pattern = Parse(source).regexp
    /\ mode \in {"call", "ret"} =>
           /\ Len(pattern_index_sequence) = Len(stack)
           /\ pattern = EntryNode(pattern_index_sequence)
    /\ (mode = "call" /\ Len(stack) = 1) =>
           /\ backtrack_table = <<>>
           /\ pattern_index_sequence = <<0>>

\* `(a|ab)b` on `abb`: next() has returned a match and then None, after
\* attempts in which the group, the alternation and the concatenation both
\* succeeded and failed.
C34_Witness ==
    /\ source = <<"(", "a", "|", "a", "b", ")", "b">>
    /\ target = <<"a", "b", "b">>
    /\ rebinds = 0
    /\ mode = "idle"
    /\ Len(results) = 2
    /\ results[1] = SomeMatch(0, 2)
    /\ ~results[2].some

\* The results, since the target was bound, that are the empty match at the
\* end of the target.
TrailingEmptyResults ==
    {i \in 1..Len(results) :
        results[i] = SomeMatch(Len(target), Len(target))}

\* C35: the cursor never exceeds Len(target) + 1, it is beyond Len(target)
\* only when matched_trailing_empty_string is set, and the empty match at
\* the end of the target is returned at most once per bound target.
C35_CursorBoundedTrailingOnce ==
    /\ pos <= Len(target) + 1
    /\ pos > Len(target) => matched_trailing_empty_string
    /\ Cardinality(TrailingEmptyResults) <= 1

\* `a*` on `a`: after [0,1) and the trailing empty match [1,1) the cursor is
\* one past the end of the target, and a further call has returned None.
C35_Witness ==
    /\ source = <<"a", "*">>
    /\ target = <<"a">>
    /\ rebinds = 0
    /\ mode = "idle"
    /\ pos = Len(target) + 1
    /\ matched_trailing_empty_string
    /\ results = <<SomeMatch(0, 1), SomeMatch(1, 1), NoMatch>>

\* C36: among the values next() has returned since the target was bound,
\* every value after a None is None.
C36_Fused ==
    \A i \in 1..Len(results) : \A j \in 1..Len(results) :
        (i < j /\ ~results[i].some) => ~results[j].some

\* `a` on `b` (a pattern that cannot match the empty string): next() has
\* returned None twice; the second call ran a root attempt at the end of
\* the target, the cursor is not beyond it.
C36_Witness ==
    /\ source = <<"a">>
    /\ target = <<"b">>
    /\ rebinds = 0
    /\ mode = "idle"
    /\ results = <<NoMatch, NoMatch>>
    /\ pos = Len(target)
    /\ matched_trailing_empty_string

\* The suspended invocations of concatenation_match.
ConcatenationFrames == {k \in 1..Len(stack) : stack[k].fn = "concat"}

\* The index path of child j of the concatenation suspended in frame k.
ChildPath(k, j) == Append(SubSeq(pattern_index_sequence, 1, k - 1), j)

\* C37: in every suspended concatenation_match, the table position stored
\* for a child is the position of the entry whose index_sequence is that
\* child's path.
C37_StoredPositionNamesChild ==
    mode \in {"call", "ret"} =>
        \A k \in ConcatenationFrames :
            \A j \in 0..(Len(stack[k].children) - 1) :
                stack[k].children[j + 1] # NoIndex =>
                    /\ stack[k].children[j + 1] < Len(backtrack_table)
                    /\ backtrack_table[stack[k].children[j + 1] + 1]
                           .index_sequence = ChildPath(k, j)

====
